---- MODULE Spec2Model ----
(***************************************************************************)
(* A model of VeryAxios (src/index.js): one client instance, its request   *)
(* and response interceptors, and the verb methods that issue requests.    *)
(*                                                                         *)
(* JavaScript values are records [t, n, s]: t is the value's typeof-like   *)
(* tag, n its number (numbers and booleans), s its text (strings, names of *)
(* functions and objects, messages of errors).  Strings of the zh-cn       *)
(* catalog are written as their code points ("U+63A5 U+53E3 ...").         *)
(***************************************************************************)
EXTENDS Integers, Sequences, FiniteSets, Bags, TLC

VARIABLES options, this, requests, issued, issuedLoading, last,
          loadingHandlerCalls, loadingCancelCalls

vars == <<options, this, requests, issued, issuedLoading, last,
          loadingHandlerCalls, loadingCancelCalls>>

\* Number of requests the callers issue in one behaviour.
MaxRequests == 2

-----------------------------------------------------------------------------
\* JavaScript values

Undefined == [t |-> "undefined", n |-> 0, s |-> ""]

Bool(b) == [t |-> "boolean", n |-> IF b THEN 1 ELSE 0, s |-> ""]

Num(k) == [t |-> "number", n |-> k, s |-> ""]

Str(x) == [t |-> "string", n |-> 0, s |-> x]

Fn(name) == [t |-> "function", n |-> 0, s |-> name]

Obj(name) == [t |-> "object", n |-> 0, s |-> name]

\* ToBoolean: undefined, false, 0 and "" are falsy.
Truthy(v) ==
    CASE v.t = "undefined" -> FALSE
      [] v.t = "boolean" -> v.n = 1
      [] v.t = "number" -> v.n # 0
      [] v.t = "string" -> v.s # ""
      [] OTHER -> TRUE

\* a && b
And(a, b) == IF Truthy(a) THEN b ELSE a

\* a || b
Or(a, b) == IF Truthy(a) THEN a ELSE b

Digit(d) == SubSeq("0123456789", d + 1, d + 1)

RECURSIVE NatToString(_)
NatToString(k) == IF k < 10 THEN Digit(k) ELSE NatToString(k \div 10) \o Digit(k % 10)

\* String(v), also the property key a value is looked up under.
JSString(v) ==
    CASE v.t = "undefined" -> "undefined"
      [] v.t = "boolean" -> IF v.n = 1 THEN "true" ELSE "false"
      [] v.t = "number" -> NatToString(v.n)
      [] v.t = "string" -> v.s
      [] OTHER -> "[object Object]"

-----------------------------------------------------------------------------
\* The error catalog

ERROR_MESSAGE_MAPS ==
    [x \in {"zh-cn", "en"} |->
        IF x = "zh-cn"
        THEN [k \in {"DEFAULT", "OFFLINE", "400", "401", "403", "404", "405",
                     "413", "414", "500", "502", "504"} |->
                CASE k = "DEFAULT" -> "U+63A5 U+53E3 U+8BF7 U+6C42 U+5931 U+8D25"
                  [] k = "OFFLINE" -> "U+7F51 U+7EDC U+8FDE U+63A5 U+65AD U+5F00"
                  [] k = "400" -> "U+8BF7 U+6C42 U+9519 U+8BEF"
                  [] k = "401" -> "U+672A U+6388 U+6743 U+FF0C U+8BF7 U+786E U+8BA4 U+662F U+5426 U+767B U+5F55"
                  [] k = "403" -> "U+65E0 U+6743 U+9650 U+FF0C U+7981 U+6B62 U+8BBF U+95EE"
                  [] k = "404" -> "U+63A5 U+53E3 U+6216 U+8D44 U+6E90 U+4E0D U+5B58 U+5728"
                  [] k = "405" -> "U+8BF7 U+6C42 U+65B9 U+5F0F U+4E0D U+5141 U+8BB8"
                  [] k = "413" -> "U+8D44 U+6E90 U+8FC7 U+5927"
                  [] k = "414" -> "URI U+8FC7 U+957F"
                  [] k = "500" -> "U+670D U+52A1 U+5668 U+5185 U+90E8 U+9519 U+8BEF"
                  [] k = "502" -> "U+7F51 U+5173 U+9519 U+8BEF"
                  [] k = "504" -> "U+7F51 U+5173 U+8D85 U+65F6"]
        ELSE [k \in {"DEFAULT", "OFFLINE", "400", "401", "403", "404", "405",
                     "413", "414", "500", "502", "504"} |->
                CASE k = "DEFAULT" -> "Request Failed"
                  [] k = "OFFLINE" -> "Network is Offline"
                  [] k = "400" -> "Bad Request"
                  [] k = "401" -> "Unauthorized"
                  [] k = "403" -> "Forbidden"
                  [] k = "404" -> "Not Found"
                  [] k = "405" -> "Method Not Allowed"
                  [] k = "413" -> "Payload Too Large"
                  [] k = "414" -> "URI Too Long"
                  [] k = "500" -> "Internal Server Error"
                  [] k = "502" -> "Bad Gateway"
                  [] k = "504" -> "Gateway Timeout"]]

\* map[key] of a catalog entry: undefined when the map has no such key.
MapGet(map, key) == IF key \in DOMAIN map THEN Str(map[key]) ELSE Undefined

-----------------------------------------------------------------------------
\* Construction

TipValues == {Bool(TRUE), Bool(FALSE)}

\* A render function, none at all, or a value that is not callable.
TipFnValues == {Fn("tipFn"), Undefined, Str("toast")}

Langs == {"zh-cn", "en"}

\* The errorHandlers object: handlers for one business status and for one
\* HTTP status.
ErrorHandlersValues == {[k \in {"1", "404"} |-> Fn("errorHandler")]}

ConstructorOptions ==
    [tip : TipValues, tipFn : TipFnValues, errorHandlers : ErrorHandlersValues,
     lang : Langs]

getResponseStatus(response) == response.errno

getResponseMessage(response) == response.errmsg

getResponseData(response) == response.data

\* The gate without its typeof check: tip && tipFn.
TipGateNoTypeof(tip, tipFn) == And(tip, tipFn)

\* this.tip = tip && tipFn && typeof tipFn === 'function'
TipGate(tip, tipFn) == And(And(tip, tipFn), Bool(tipFn.t = "function"))

constructor(o) ==
    [tip |-> TipGate(o.tip, o.tipFn),
     tipFn |-> o.tipFn,
     errorHandlers |-> o.errorHandlers,
     lang |-> o.lang,
     loadingHandler |-> Fn("loadingHandler"),
     loadingCancelHanlder |-> Fn("loadingCancelHanlder")]

-----------------------------------------------------------------------------
\* Promises: the first resolve or reject settles, later ones are ignored.

Pending == [state |-> "pending", value |-> Undefined]

Resolved(v) == [state |-> "resolved", value |-> v]

Rejected(v) == [state |-> "rejected", value |-> v]

Settle(p, q) == IF p.state = "pending" THEN q ELSE p

TypeError == [t |-> "error", n |-> 0, s |-> "TypeError"]

-----------------------------------------------------------------------------
\* Request configs, response bodies and transport errors

\* An object argument as the interceptors read it: its veryAxiosConfig key
\* (absent, or the per-call options) and its own loading key.
NoObject == [t |-> "undefined", loading |-> Undefined]

OptionsObject(loading) == [t |-> "object", loading |-> loading]

EmptyObject == [veryAxiosConfig |-> NoObject, loading |-> Undefined]

\* The per-call options argument: { loading: true } or {}.
LoadingOptions == {Bool(TRUE), Undefined}

\* axios.get(url, config) and axios.delete(url, config) take the config second,
\* axios.post(url, data, config) and axios.put(url, data, config) take it third.
AxiosConfig(type, param, config) ==
    IF type \in {"get", "delete"} THEN param ELSE config

\* config.veryAxiosConfig && config.veryAxiosConfig.loading
ConfigLoading(config) ==
    IF config.veryAxiosConfig.t = "undefined"
    THEN Undefined
    ELSE config.veryAxiosConfig.loading

\* Business statuses, messages and payloads a server sends.
Statuses == {Num(0), Str("0"), Str("00"), Num(1), Num(404), Undefined}

Messages == {Undefined, Str("U+81EA U+5B9A U+4E49 U+9519 U+8BEF")}

\* res.data: absent, the empty string, or an envelope.
Bodies ==
    {[t |-> "undefined", errno |-> Undefined, errmsg |-> Undefined, data |-> Undefined],
     [t |-> "string", errno |-> Undefined, errmsg |-> Undefined, data |-> Undefined]}
    \cup [t : {"object"}, errno : Statuses, errmsg : Messages, data : {Obj("payload")}]

NoBody == [t |-> "none", errno |-> Undefined, errmsg |-> Undefined, data |-> Undefined]

\* res.data as a value: undefined, "" or an object.
BodyValue(b) ==
    CASE b.t = "undefined" -> Undefined
      [] b.t = "string" -> Str("")
      [] OTHER -> Obj("body")

HttpStatuses == {400, 401, 403, 404, 405, 413, 414, 500, 502, 504, 418}

\* The underlying client's errors: the server responded outside 2xx, the
\* request was sent and nothing came back, or the request was never sent.
Errors ==
    {[response |-> TRUE, status |-> st, request |-> TRUE,
      message |-> "Request failed with status code " \o NatToString(st)] :
        st \in HttpStatuses}
    \cup [response : {FALSE}, status : {0}, request : {TRUE},
          message : {"Network Error"}]
    \cup [response : {FALSE}, status : {0}, request : {FALSE},
          message : {"Invalid URL"}]

NoError == [response |-> FALSE, status |-> 0, request |-> FALSE, message |-> ""]

ErrorValue(e) == [t |-> "error", n |-> e.status, s |-> e.message]

-----------------------------------------------------------------------------
\* The interceptors

\* object[key] of the errorHandlers object.
HandlerGet(handlers, key) ==
    IF key \in DOMAIN handlers THEN handlers[key] ELSE Undefined

\* typeof errorHandlers inside interceptors(): the name is a parameter of the
\* constructor and is bound to nothing here, so typeof gives "undefined".
TypeofErrorHandlers == "undefined"

\* const errorHandler = this.errorHandlers[status];
\* if (errorHandler && typeof errorHandlers === 'function') errorHandler();
\* The number of calls made.
RunErrorHandler(self, status) ==
    LET errorHandler == HandlerGet(self.errorHandlers, JSString(status))
    IN  IF Truthy(errorHandler) /\ TypeofErrorHandlers = "function" THEN 1 ELSE 0

\* if (loading && this.loadingHandler && typeof this.loadingHandler === 'function')
\* The number of calls made.
RunLoading(config, callback) ==
    IF Truthy(ConfigLoading(config)) /\ Truthy(callback) /\ callback.t = "function"
    THEN 1
    ELSE 0

\* The comparison without the conversion to a string: status !== 0.
IsBusinessErrorStrict(status) == status # Num(0)

\* String(status) !== '0'
IsBusinessError(status) == JSString(status) # "0"

\* The message without its fallback to the DEFAULT entry.
BusinessMessageNoDefault(self, resData) == getResponseMessage(resData)

\* this.getResponseMessage(resData) || ERROR_MESSAGE_MAPS[this.lang].DEFAULT
BusinessMessage(self, resData) ==
    Or(getResponseMessage(resData), Str(ERROR_MESSAGE_MAPS[self.lang]["DEFAULT"]))

\* The executor of the promise the success handler returns.  A throw inside
\* the executor rejects the promise, unless it is settled already.
SuccessExecutor(self, resData) ==
    LET p1 == IF ~Truthy(BodyValue(resData)) THEN Resolved(Undefined) ELSE Pending
    IN  IF resData.t = "undefined"
        THEN \* response.errno of undefined throws
             [tips |-> <<>>, handlers |-> 0, message |-> Undefined,
              tipFnError |-> FALSE, result |-> Settle(p1, Rejected(TypeError))]
        ELSE LET status == getResponseStatus(resData)
                 message == BusinessMessage(self, resData)
                 data == getResponseData(resData)
             IN  IF IsBusinessError(status)
                 THEN IF Truthy(self.tip) /\ self.tipFn.t # "function"
                      THEN [tips |-> <<>>, handlers |-> 0, message |-> message,
                            tipFnError |-> TRUE,
                            result |-> Settle(p1, Rejected(TypeError))]
                      ELSE [tips |-> IF Truthy(self.tip) THEN <<message>> ELSE <<>>,
                            handlers |-> RunErrorHandler(self, status),
                            message |-> message,
                            tipFnError |-> FALSE,
                            result |-> Settle(Settle(p1, Rejected(message)),
                                              Resolved(data))]
                 ELSE [tips |-> <<>>, handlers |-> 0, message |-> message,
                       tipFnError |-> FALSE, result |-> Settle(p1, Resolved(data))]

\* The message with the onLine test left out.
TransportMessageNoOffline(self, error, online) ==
    LET errmsgMaps == ERROR_MESSAGE_MAPS[self.lang]
    IN  IF error.response
        THEN Or(MapGet(errmsgMaps, JSString(Num(error.status))), Str(error.message))
        ELSE Str(error.message)

\* The message with the raw failure message preferred to the catalog entry:
\* error.message || errmsgMaps[status].
TransportMessageRawFirst(self, error, online) ==
    LET errmsgMaps == ERROR_MESSAGE_MAPS[self.lang]
    IN  IF error.response
        THEN IF ~online
             THEN Str(errmsgMaps["OFFLINE"])
             ELSE Or(Str(error.message), MapGet(errmsgMaps, JSString(Num(error.status))))
        ELSE Str(error.message)

\* The message the error handler resolves.
TransportMessage(self, error, online) ==
    LET errmsgMaps == ERROR_MESSAGE_MAPS[self.lang]
    IN  IF error.response
        THEN IF ~online
             THEN Str(errmsgMaps["OFFLINE"])
             ELSE Or(MapGet(errmsgMaps, JSString(Num(error.status))), Str(error.message))
        ELSE IF error.request
             THEN Str(error.message)
             ELSE Str(error.message)

\* The error handler: it returns nothing, so the promise of the request
\* resolves with undefined; a throw inside it rejects that promise.
ErrorHandler(self, error, online) ==
    LET errmsg == TransportMessage(self, error, online)
        handlers == IF error.response THEN RunErrorHandler(self, Num(error.status)) ELSE 0
    IN  IF Truthy(self.tip) /\ self.tipFn.t # "function"
        THEN [tips |-> <<>>, handlers |-> handlers, message |-> errmsg,
              tipFnError |-> TRUE, result |-> Rejected(TypeError)]
        ELSE [tips |-> IF Truthy(self.tip) THEN <<errmsg>> ELSE <<>>,
              handlers |-> handlers, message |-> errmsg,
              tipFnError |-> FALSE, result |-> Resolved(Undefined)]

-----------------------------------------------------------------------------
\* State

\* requests is the bag of the requests in flight.  A request: pc is "issued"
\* (the verb method was called) or "sent" (the request interceptor ran);
\* config is the config axios holds for it; loading is the loading key of the
\* caller's options argument; starts counts the loadingHandler calls made for
\* it.  issued counts the requests issued, issuedLoading those issued with
\* loading = true.  last is what the latest response handler did.
NoLast ==
    [kind |-> "none", loading |-> Undefined, starts |-> 0, stops |-> 0,
     body |-> NoBody, error |-> NoError, onLine |-> TRUE,
     tips |-> <<>>, handlers |-> 0, message |-> Undefined,
     tipFnError |-> FALSE, result |-> Pending]

Init ==
    /\ options \in ConstructorOptions
    /\ this = constructor(options)
    /\ requests = EmptyBag
    /\ issued = 0
    /\ issuedLoading = 0
    /\ last = NoLast
    /\ loadingHandlerCalls = 0
    /\ loadingCancelCalls = 0

\* fetch(type, path, param, config): this.axios[type](path, param, config).
\* The request axios now holds.
fetch(type, param, config, loading) ==
    [pc |-> "issued", config |-> AxiosConfig(type, param, config),
     loading |-> loading, starts |-> 0]

\* GET(path, param, options):
\* this.fetch('get', path, { params: param, veryAxiosConfig: options })
GET ==
    \E loading \in LoadingOptions :
        /\ issued < MaxRequests
        /\ requests' = requests (+) SetToBag({
               fetch("get",
                     [veryAxiosConfig |-> OptionsObject(loading), loading |-> Undefined],
                     EmptyObject, loading)})
        /\ issued' = issued + 1
        /\ issuedLoading' = issuedLoading + (IF Truthy(loading) THEN 1 ELSE 0)
        /\ UNCHANGED <<options, this, last, loadingHandlerCalls, loadingCancelCalls>>

\* POST(path, param, options): this.fetch('post', path, param, options)
POST ==
    \E loading \in LoadingOptions :
        /\ issued < MaxRequests
        /\ requests' = requests (+) SetToBag({
               fetch("post", EmptyObject,
                     [veryAxiosConfig |-> NoObject, loading |-> loading], loading)})
        /\ issued' = issued + 1
        /\ issuedLoading' = issuedLoading + (IF Truthy(loading) THEN 1 ELSE 0)
        /\ UNCHANGED <<options, this, last, loadingHandlerCalls, loadingCancelCalls>>

\* PUT(path, param, options): this.fetch('put', path, param, options)
PUT ==
    \E loading \in LoadingOptions :
        /\ issued < MaxRequests
        /\ requests' = requests (+) SetToBag({
               fetch("put", EmptyObject,
                     [veryAxiosConfig |-> NoObject, loading |-> loading], loading)})
        /\ issued' = issued + 1
        /\ issuedLoading' = issuedLoading + (IF Truthy(loading) THEN 1 ELSE 0)
        /\ UNCHANGED <<options, this, last, loadingHandlerCalls, loadingCancelCalls>>

\* DELETE(path, param, options): this.fetch('delete', path, param, options)
DELETE ==
    \E loading \in LoadingOptions :
        /\ issued < MaxRequests
        /\ requests' = requests (+) SetToBag({
               fetch("delete", EmptyObject,
                     [veryAxiosConfig |-> NoObject, loading |-> loading], loading)})
        /\ issued' = issued + 1
        /\ issuedLoading' = issuedLoading + (IF Truthy(loading) THEN 1 ELSE 0)
        /\ UNCHANGED <<options, this, last, loadingHandlerCalls, loadingCancelCalls>>

\* FORMDATA(path, formdata): this.axios(path, { method, data, headers }), with
\* no options and no veryAxiosConfig.
FORMDATA ==
    /\ issued < MaxRequests
    /\ requests' = requests (+) SetToBag({[pc |-> "issued", config |-> EmptyObject,
                                           loading |-> Undefined, starts |-> 0]})
    /\ issued' = issued + 1
    /\ UNCHANGED <<options, this, issuedLoading, last,
                   loadingHandlerCalls, loadingCancelCalls>>

\* The request interceptor, run for request r.
RequestInterceptor(r) ==
    /\ r.pc = "issued"
    /\ LET n == RunLoading(r.config, this.loadingHandler)
       IN  /\ requests' = (requests (-) SetToBag({r}))
                          (+) SetToBag({[r EXCEPT !.pc = "sent", !.starts = @ + n]})
           /\ loadingHandlerCalls' = loadingHandlerCalls + n
    /\ UNCHANGED <<options, this, issued, issuedLoading, last, loadingCancelCalls>>

\* The response success handler, run for request r with body resData; the
\* promise it returns settles the caller's operation.
ResponseSuccess(r, resData) ==
    /\ r.pc = "sent"
    /\ LET n == RunLoading(r.config, this.loadingCancelHanlder)
           out == SuccessExecutor(this, resData)
       IN  /\ loadingCancelCalls' = loadingCancelCalls + n
           /\ last' = [kind |-> "success", loading |-> r.loading,
                       starts |-> r.starts, stops |-> n,
                       body |-> resData, error |-> NoError, onLine |-> TRUE,
                       tips |-> out.tips, handlers |-> out.handlers,
                       message |-> out.message, tipFnError |-> out.tipFnError,
                       result |-> out.result]
    /\ requests' = requests (-) SetToBag({r})
    /\ UNCHANGED <<options, this, issued, issuedLoading, loadingHandlerCalls>>

\* The response error handler, run for request r with the client's error;
\* onLine is what window.navigator.onLine gives when the handler reads it.
ResponseError(r, error, onLine) ==
    /\ r.pc = "sent"
    /\ LET n == RunLoading(r.config, this.loadingCancelHanlder)
           out == ErrorHandler(this, error, onLine)
       IN  /\ loadingCancelCalls' = loadingCancelCalls + n
           /\ last' = [kind |-> "error", loading |-> r.loading,
                       starts |-> r.starts, stops |-> n,
                       body |-> NoBody, error |-> error, onLine |-> onLine,
                       tips |-> out.tips, handlers |-> out.handlers,
                       message |-> out.message, tipFnError |-> out.tipFnError,
                       result |-> out.result]
    /\ requests' = requests (-) SetToBag({r})
    /\ UNCHANGED <<options, this, issued, issuedLoading, loadingHandlerCalls>>

Intercept == \E r \in BagToSet(requests) : RequestInterceptor(r)

Succeed == \E r \in BagToSet(requests) : \E resData \in Bodies : ResponseSuccess(r, resData)

\* window.navigator.onLine is read only for an error that carries a response.
Fail ==
    \E r \in BagToSet(requests) : \E error \in Errors :
        \E onLine \in (IF error.response THEN BOOLEAN ELSE {TRUE}) :
            ResponseError(r, error, onLine)

Next ==
    \/ GET
    \/ POST
    \/ PUT
    \/ DELETE
    \/ FORMDATA
    \/ Intercept
    \/ Succeed
    \/ Fail

Spec == Init /\ [][Next]_vars

-----------------------------------------------------------------------------
\* Properties

\* Tipping as the caller configured it: the toggle is true and tipFn is callable.
TipEnabled == options.tip = Bool(TRUE) /\ options.tipFn.t = "function"

\* The latest response was a 2xx response with a body.
HasBody == last.kind = "success" /\ last.body.t = "object"

\* The latest response was a 2xx response with a body whose business status,
\* compared as a string, is "0".
BusinessSuccess == HasBody /\ JSString(getResponseStatus(last.body)) = "0"

\* The latest response was a 2xx response with a body whose business status,
\* compared as a string, is not "0".
BusinessFailure == HasBody /\ JSString(getResponseStatus(last.body)) # "0"

TransportFailure == last.kind = "error"

\* The status codes of the catalog, as its keys.
CatalogCodes == {"400", "401", "403", "404", "405", "413", "414", "500", "502", "504"}

\* C1: a 2xx response whose body has business status "0" (compared as a string)
\* resolves the operation with the payload getResponseData gives; it is not
\* rejected, tipFn is not called and no error handler runs.
C1_SuccessResolvesWithData ==
    BusinessSuccess =>
        /\ last.result = Resolved(getResponseData(last.body))
        /\ last.tips = <<>>
        /\ last.handlers = 0

C1_Witness ==
    /\ BusinessSuccess
    /\ getResponseStatus(last.body) = Str("0")
    /\ last.result = Resolved(Obj("payload"))
    /\ TipEnabled

\* C2: a 2xx response with a body whose business status is not "0" rejects the
\* operation with the body's message, or with the active language's DEFAULT
\* string when the body has none; with tipping enabled tipFn is called exactly
\* once, with that message.
C2_BusinessFailureRejects ==
    BusinessFailure =>
        LET reason == IF Truthy(getResponseMessage(last.body))
                      THEN getResponseMessage(last.body)
                      ELSE Str(ERROR_MESSAGE_MAPS[options.lang]["DEFAULT"])
        IN  /\ last.result = Rejected(reason)
            /\ TipEnabled => last.tips = <<reason>>
            /\ (options.lang = "en" /\ ~Truthy(getResponseMessage(last.body)))
                   => last.result.value = Str("Request Failed")

C2_Witness ==
    /\ BusinessFailure
    /\ getResponseMessage(last.body) = Undefined
    /\ TipEnabled
    /\ last.result.state = "rejected"
    /\ Len(last.tips) = 1

\* C3: a handler registered in errorHandlers for status S is invoked exactly
\* once for each business failure with business status S and for each
\* transport failure whose server response has HTTP status S.
C3_HandlerInvokedOnce ==
    /\ (BusinessFailure
        /\ HandlerGet(options.errorHandlers,
                      JSString(getResponseStatus(last.body))).t = "function")
           => last.handlers = 1
    /\ (TransportFailure /\ last.error.response
        /\ HandlerGet(options.errorHandlers,
                      JSString(Num(last.error.status))).t = "function")
           => last.handlers = 1

\* C4: a request issued with loading = true in its options has loadingHandler
\* called exactly once before it is sent and loadingCancelHanlder called exactly
\* once when it settles, whatever the outcome; a request without a truthy
\* loading option has neither called.
C4_LoadingOncePerRequest ==
    last.kind # "none" =>
        IF Truthy(last.loading)
        THEN last.starts = 1 /\ last.stops = 1
        ELSE last.starts = 0 /\ last.stops = 0

\* C5: on a transport failure the operation fails with the underlying
\* client's error value as its reason, and never completes successfully.
C5_TransportFailureRejects ==
    TransportFailure => last.result = Rejected(ErrorValue(last.error))

\* C6: on a transport failure the message is, with a server response and the
\* client offline, the OFFLINE string whatever the status code; with a server
\* response and the client online, the catalog string of the status code, or
\* the raw failure message when the catalog has none; without a server
\* response, the raw failure message.  With tipping enabled tipFn is called
\* exactly once, with that message.
C6_TransportMessagePriority ==
    TransportFailure =>
        LET key == NatToString(last.error.status)
            expected ==
                IF last.error.response
                THEN IF ~last.onLine
                     THEN ERROR_MESSAGE_MAPS[options.lang]["OFFLINE"]
                     ELSE IF key \in CatalogCodes
                          THEN ERROR_MESSAGE_MAPS[options.lang][key]
                          ELSE last.error.message
                ELSE last.error.message
        IN  /\ last.message = Str(expected)
            /\ TipEnabled => last.tips = <<Str(expected)>>
            /\ (options.lang = "en" /\ last.error.response /\ last.onLine
                /\ last.error.status = 404) => last.message = Str("Not Found")

C6_Witness ==
    /\ TransportFailure
    /\ last.error.response
    /\ last.error.status = 404
    /\ ~last.onLine
    /\ TipEnabled
    /\ options.lang = "en"
    /\ last.tips = <<Str("Network is Offline")>>

C8_TipGate ==
    /\ Truthy(this.tip) <=> TipEnabled
    /\ (BusinessFailure \/ TransportFailure) => (Len(last.tips) = 1 <=> TipEnabled)
    /\ ~TipEnabled => last.tips = <<>>
    /\ ~last.tipFnError

C8_Witness ==
    /\ BusinessFailure \/ TransportFailure
    /\ options.tip = Bool(TRUE)
    /\ options.tipFn = Str("toast")
    /\ last.tips = <<>>
    /\ issued = MaxRequests
    /\ requests = EmptyBag

\* C9: a 2xx response without a body (res.data absent or falsy, the empty
\* string included) resolves the operation with no value and nothing more
\* happens: tipFn is not called, no handler runs, the operation is not
\* rejected.
C9_EmptyBodyStops ==
    (last.kind = "success" /\ ~Truthy(BodyValue(last.body))) =>
        /\ last.result = Resolved(Undefined)
        /\ last.tips = <<>>
        /\ last.handlers = 0

\* C10: under any interleaving the loadingCancelHanlder calls never exceed the
\* loadingHandler calls, and once every issued request has settled both counts
\* equal the number of requests issued with loading = true.
C10_LoadingCallsBalanced ==
    /\ loadingCancelCalls <= loadingHandlerCalls
    /\ requests = EmptyBag =>
           /\ loadingHandlerCalls = issuedLoading
           /\ loadingCancelCalls = issuedLoading

====
